---------------------------- MODULE Spec2Model ----------------------------
(***************************************************************************)
(* Medication reminder scheduler and response reconciliation of Hexa-care. *)
(*                                                                         *)
(*   backend/utils/schedular.py            check_and_send_sms (the tick)   *)
(*   backend/controllers/medication_controller.py                          *)
(*                                         process_medication_response     *)
(*   backend/main.py                       add_medication                  *)
(*   backend/controllers/prescription_controller.py                        *)
(*                                         process_prescription            *)
(*   backend/routes/prescription_routes.py delete_prescription             *)
(*   backend/routes/twilio_webhook.py      twilio_webhook                  *)
(*                                                                         *)
(* Strings the code inspects character by character (phone numbers and     *)
(* message texts) are sequences of one-character strings.  Instants are    *)
(* minutes; the value a datetime has once stored in MongoDB is the number  *)
(* of minutes since day 0, 00:00 of the zone BSON assumes (UTC).           *)
(***************************************************************************)
EXTENDS Integers, Sequences, FiniteSets, TLC

(***************************************************************************)
(* Bounds of the model.                                                    *)
(***************************************************************************)
MaxMeds == 1        \* medications ever added
MaxTicks == 2       \* runs of check_and_send_sms
MaxReplies == 2     \* invocations of process_medication_response
MaxAdvances == 2    \* steps of the wall clock
MaxDocuments == 2   \* documents another writer puts into db["medications"]
MaxPerStatus == 3   \* entries of one status in a generated log content
MaxQueries == 2     \* queries answered
MaxPrescriptions == 1   \* prescriptions stored at one time
MaxLen == 2         \* characters of a generated inbound address
MaxObjectIds == 4   \* prescriptions and medications ever inserted by uploads
MaxDeletes == 2     \* calls of delete_prescription

(***************************************************************************)
(* Program constants.                                                      *)
(***************************************************************************)
MinutesPerDay == 1440
KolkataOffset == 330     \* pytz.timezone("Asia/Kolkata"), UTC+05:30
LookbackMinutes == 240   \* timedelta(hours=4)
max_instances == 1       \* add_job(check_and_send_sms, 'interval', minutes=1)

(***************************************************************************)
(* Python string primitives on sequences of characters.                    *)
(***************************************************************************)
Digits == {"0", "1", "2", "3", "4", "5", "6", "7", "8", "9"}

Whitespace == {" "}

\* s[i..] starts with p
MatchAt(s, p, i) ==
    /\ i + Len(p) - 1 <= Len(s)
    /\ \A k \in 1..Len(p) : s[i + k - 1] = p[k]

\* Python: p in s
Contains(s, p) == \E i \in 1..(Len(s) + 1) : MatchAt(s, p, i)

\* Python: s.startswith(p)
StartsWith(s, p) == MatchAt(s, p, 1)

RECURSIVE ReplaceFrom(_, _, _, _)
ReplaceFrom(s, old, new, i) ==
    IF i > Len(s) THEN <<>>
    ELSE IF MatchAt(s, old, i)
         THEN new \o ReplaceFrom(s, old, new, i + Len(old))
         ELSE <<s[i]>> \o ReplaceFrom(s, old, new, i + 1)

\* Python: s.replace(old, new), every non-overlapping occurrence, left to right
Replace(s, old, new) == ReplaceFrom(s, old, new, 1)

LowerChar(c) ==
    CASE c = "Y" -> "y"
      [] c = "N" -> "n"
      [] c = "O" -> "o"
      [] c = "E" -> "e"
      [] c = "S" -> "s"
      [] OTHER -> c

\* Python: s.lower()
Lower(s) == [i \in 1..Len(s) |-> LowerChar(s[i])]

RECURSIVE LStrip(_)
LStrip(s) == IF s # <<>> /\ Head(s) \in Whitespace THEN LStrip(Tail(s)) ELSE s

RECURSIVE RStrip(_)
RStrip(s) ==
    IF s # <<>> /\ s[Len(s)] \in Whitespace
    THEN RStrip(SubSeq(s, 1, Len(s) - 1))
    ELSE s

\* Python: s.strip()
Strip(s) == RStrip(LStrip(s))

KeepDigitOrPlus(c) == c \in Digits \cup {"+"}

\* Python: re.sub(r'[^\d+]', '', s)
SubNonDigitPlus(s) == SelectSeq(s, KeepDigitOrPlus)

RECURSIVE DedupFrom(_, _)
DedupFrom(s, seen) ==
    IF s = <<>> THEN <<>>
    ELSE IF Head(s) \in seen
         THEN DedupFrom(Tail(s), seen)
         ELSE <<Head(s)>> \o DedupFrom(Tail(s), seen \cup {Head(s)})

\* Python: list(dict.fromkeys(s))
Dedup(s) == DedupFrom(s, {})

Range(s) == {s[i] : i \in 1..Len(s)}


(***************************************************************************)
(* Literals.                                                               *)
(***************************************************************************)
WhatsappPrefix == <<"w", "h", "a", "t", "s", "a", "p", "p", ":">>

Plus == <<"+">>

\* contact numbers as stored with a medication
StoredContacts == {<<"+", "1", "2">>}

\* From values of inbound webhook events
InboundAddresses ==
    {<<"w", "h", "a", "t", "s", "a", "p", "p", ":", "+", "1", "2">>, <<"+", "3", "4">>}

TextYes == <<"y", "e", "s">>
TextNoThanks == <<"N", "o", " ", "t", "h", "a", "n", "k", "s">>
TextMaybe == <<"m", "a", "y", "b", "e">>
TextYesNo == <<"y", "e", "s", " ", "n", "o">>
TextNo == <<"N", "o">>
TextHello == <<"h", "e", "l", "l", "o">>

\* Body values of inbound webhook events
ReplyTexts == {TextYes, TextNoThanks}

InboundTexts == {TextYes, TextNoThanks, TextMaybe, TextYesNo, TextNo, TextHello}

PatientNames == {"Asha"}

(***************************************************************************)
(* medication_controller.py: normalize_phone_number and the reply          *)
(* classifier of process_medication_response.                              *)
(***************************************************************************)
normalize_phone_number(phone_number) ==
    LET p1 == Replace(phone_number, WhatsappPrefix, <<>>)
        p2 == SubNonDigitPlus(p1)
    IN  IF ~StartsWith(p2, Plus) THEN Plus \o p2 ELSE p2

positive_keywords ==
    <<<<"y", "e", "s">>, <<"y">>, <<"t", "a", "k", "e", "n">>, <<"d", "o", "n", "e">>, <<"o", "k">>, <<"o", "k", "a", "y">>,
      <<"c", "o", "m", "p", "l", "e", "t", "e", "d">>,
      <<"f", "i", "n", "i", "s", "h", "e", "d">>>>

negative_keywords ==
    <<<<"n", "o">>, <<"n">>, <<"n", "o", "t", " ", "t", "a", "k", "e", "n">>,
      <<"m", "i", "s", "s", "e", "d">>, <<"f", "o", "r", "g", "o", "t">>,
      <<"s", "k", "i", "p">>, <<"s", "k", "i", "p", "p", "e", "d">>>>

message_lower(message) == Strip(Lower(message))

is_positive(message) ==
    \E k \in 1..Len(positive_keywords) :
        Contains(message_lower(message), positive_keywords[k])

is_negative(message) ==
    \E k \in 1..Len(negative_keywords) :
        Contains(message_lower(message), negative_keywords[k])

\* the early return "ignored" is taken exactly when this is false
recognized(message) == is_positive(message) \/ is_negative(message)

new_status(message) == IF is_positive(message) THEN "taken" ELSE "missed"

possible_numbers(contact_number) ==
    Dedup(<<normalize_phone_number(contact_number),
            contact_number,
            Replace(contact_number, WhatsappPrefix, <<>>),
            Plus \o Replace(Replace(contact_number, WhatsappPrefix, <<>>), Plus, <<>>)>>)

(***************************************************************************)
(* Time.  clock is the real instant in minutes of UTC.  The tick reads it  *)
(* as a timezone-aware Asia/Kolkata datetime, which MongoDB stores as the  *)
(* UTC instant.  The reply handler reads datetime.now(), the naive local   *)
(* time of the server, which MongoDB stores and compares as if it were     *)
(* UTC: the instant shifted by the server's offset.                        *)
(***************************************************************************)
Digit == <<"0", "1", "2", "3", "4", "5", "6", "7", "8", "9">>

Fmt2(n) == Digit[(n \div 10) + 1] \o Digit[(n % 10) + 1]

\* strftime("%H:%M") of the minute-of-day m
HHMM(m) == Fmt2(m \div 60) \o ":" \o Fmt2(m % 60)

\* datetime.now(pytz.timezone("Asia/Kolkata")): wall-clock minutes in Kolkata
KolkataWall(t) == t + KolkataOffset

\* .date() of a wall-clock value
DateOf(w) == w \div MinutesPerDay

\* datetime.now() on the server, as MongoDB sees it
NaiveLocalNow(t, offset) == t + offset

ServerOffsets == {0, KolkataOffset}

Deltas == {1, LookbackMinutes}

\* 08:00 in Kolkata on day 0
StartClock == 8 * 60 - KolkataOffset

SlotLists == {<<"08:00">>, <<"08:00", "08:01">>}

Durations == {1}

StartDates == {0, 1}

Absent == <<>>

Some(x) == <<x>>

\* str(ObjectId) and ObjectId(str): the one-element tuple of an id is its
\* string
Str(oid) == <<oid>>

ObjectId(s) == s[1]

(***************************************************************************)
(* State.                                                                  *)
(***************************************************************************)
VARIABLES
    clock,                      \* real instant, minutes of UTC
    advances,                   \* steps the clock has taken
    serverOffset,               \* local-time offset of the server, minutes
    prescriptions,              \* collection db["prescriptions"]
    medications,                \* collection db["medications"]
    medication_logs,            \* collection db["medication_logs"]
    medication_confirmations,   \* collection db["medication_confirmations"]
    outbox,                     \* notifications handed to send_sms / send_whatsapp
    tickPc,                     \* "idle", "loop" or "send": position of the tick
    tickNow,                    \* now of the running tick
    log_id,                     \* log_id of the running iteration
    results,                    \* cursor of the running tick: medications left
    ticks,                      \* runs of check_and_send_sms started
    inv,                        \* invocations of process_medication_response
    response,                   \* what the last query handler returned
    object_ids,                 \* ObjectIds generated for prescriptions and medications
    deletion                    \* the running or last call of delete_prescription

vars == <<clock, advances, serverOffset, prescriptions, medications, medication_logs,
          medication_confirmations, outbox, tickPc, tickNow, log_id,
          results, ticks, inv, response, object_ids, deletion>>

Invocations == 1..MaxReplies

IdleDeletion ==
    [pc |-> "idle", prescription_id |-> <<>>, user_id |-> <<>>, result |-> <<>>,
     calls |-> 0]

IdleInvocation ==
    [pc |-> "idle", contact_number |-> <<>>, normalized_contact |-> <<>>,
     message |-> <<>>, current_time |-> 0, recent_log |-> Absent, modified_count |-> 0,
     result |-> Absent, twiml |-> Absent]

Init ==
    /\ clock = StartClock
    /\ advances = 0
    /\ serverOffset \in ServerOffsets
    /\ prescriptions = <<>>
    /\ medications = <<>>
    /\ medication_logs = <<>>
    /\ medication_confirmations = <<>>
    /\ outbox = {}
    /\ tickPc = "idle"
    /\ tickNow = 0
    /\ log_id = Absent
    /\ results = <<>>
    /\ ticks = 0
    /\ inv = [i \in Invocations |-> IdleInvocation]
    /\ response = Absent
    /\ object_ids = 0
    /\ deletion = IdleDeletion

(***************************************************************************)
(* The wall clock.                                                         *)
(***************************************************************************)
Advance(d) ==
    /\ advances < MaxAdvances
    /\ clock' = clock + d
    /\ advances' = advances + 1
    /\ UNCHANGED <<deletion, response, object_ids, prescriptions, serverOffset, medications, medication_logs,
                   medication_confirmations, outbox, tickPc, tickNow, log_id,
                   results, ticks, inv>>

(***************************************************************************)
(* main.py: add_medication.  name, dosage and the message text take no     *)
(* part in scheduling or matching and are left out of the record.          *)
(***************************************************************************)
add_medication(patient_name, times, duration_days, start_date, contact_number) ==
    /\ Len(medications) < MaxMeds
    /\ object_ids' = object_ids + 1
    /\ medications' = Append(medications,
            [_id |-> object_ids + 1,
             patient_name |-> patient_name,
             contact_number |-> contact_number,
             times |-> times,
             duration_days |-> duration_days,
             start_date |-> start_date * MinutesPerDay])
    /\ UNCHANGED <<deletion, response, prescriptions, clock, advances, serverOffset, medication_logs,
                   medication_confirmations, outbox, tickPc, tickNow, log_id,
                   results, ticks, inv>>

(***************************************************************************)
(* prescription_controller.py: process_prescription.  messages_by_time is  *)
(* given as the list of the time_str of its messages (two messages of one  *)
(* time_str make two records), parsed_data['medicines'] as the list of     *)
(* the duration strings.                                                   *)
(***************************************************************************)
DefaultDuration == 30

RECURSIVE DecimalValue(_)
DecimalValue(digits) ==
    IF digits = <<>> THEN 0
    ELSE 10 * DecimalValue(SubSeq(digits, 1, Len(digits) - 1))
         + (CHOOSE n \in 0..9 : Digit[n + 1] = digits[Len(digits)])

\* lines 56-63: int(''.join(filter(str.isdigit, duration_str))), 30 when
\* int() raises
ParsedDuration(duration_str) ==
    LET digits == SelectSeq(duration_str, LAMBDA c : c \in Digits)
    IN  IF digits = <<>> THEN DefaultDuration ELSE DecimalValue(digits)

Max(a, b) == IF a >= b THEN a ELSE b

RECURSIVE MaxParsedDuration(_)
MaxParsedDuration(duration_strs) ==
    IF duration_strs = <<>> THEN 0
    ELSE Max(MaxParsedDuration(Tail(duration_strs)),
             ParsedDuration(Head(duration_strs)))

\* lines 53-66
max_duration_days(duration_strs) ==
    IF MaxParsedDuration(duration_strs) = 0
    THEN DefaultDuration
    ELSE MaxParsedDuration(duration_strs)

\* lines 68-80
medication_record(id, user_schedule, prescription_id, time_str, duration_strs, now) ==
    [_id |-> id,
     user_id |-> user_schedule.user_id,
     prescription_id |-> prescription_id,
     patient_name |-> user_schedule.patient_name,
     contact_number |-> user_schedule.contact_number,
     times |-> <<time_str>>,
     duration_days |-> max_duration_days(duration_strs),
     start_date |-> now]

process_prescription(user_schedule, time_strs, duration_strs) ==
    /\ Len(prescriptions) < MaxPrescriptions
    /\ object_ids + 1 + Len(time_strs) <= MaxObjectIds
    /\ object_ids' = object_ids + 1 + Len(time_strs)
    /\ LET inserted_id == object_ids + 1
           prescription_id == Str(inserted_id)
           now == NaiveLocalNow(clock, serverOffset)
       IN  /\ prescriptions' = Append(prescriptions,
                   [_id |-> inserted_id,
                    user_id |-> user_schedule.user_id,
                    patient_name |-> user_schedule.patient_name,
                    contact_number |-> user_schedule.contact_number,
                    upload_date |-> now])
           /\ medications' = medications \o
                   [k \in 1..Len(time_strs) |->
                       medication_record(inserted_id + k, user_schedule,
                                         prescription_id, time_strs[k],
                                         duration_strs, now)]
    /\ UNCHANGED <<deletion, response, clock, advances, serverOffset, medication_logs,
                   medication_confirmations, outbox, tickPc, tickNow, log_id,
                   results, ticks, inv>>

(***************************************************************************)
(* routes/prescription_routes.py: delete_prescription, the handler of      *)
(* DELETE /prescription/{prescription_id} (the function of the same name   *)
(* in prescription_controller.py has the same body).  Its two database     *)
(* calls are awaited, so each is a step:                                   *)
(*   DeleteOne    lines 82-90, prescriptions.delete_one                    *)
(*   DeleteMany   lines 93-103, medications.delete_many                    *)
(* Whatever is raised inside the try, the HTTPException of line 90         *)
(* included, is caught at line 105 and raised again with status code 500.  *)
(***************************************************************************)
NotFoundDetail == "Prescription not found or access denied"

\* lines 105-106: the outcome of an exception raised in the try, e its str()
ErrorOutcome(e) ==
    Some([status_code |-> 500, detail |-> <<"Error deleting prescription: ">> \o e])

\* str() of HTTPException(status_code=404, detail=NotFoundDetail)
NotFoundRaised == <<"404: ", NotFoundDetail>>

\* str() of an exception of the database driver
DatabaseRaised == <<"database error">>

\* lines 83-84 and 94-95: if user_id: query["user_id"] = user_id
MatchesOwner(doc, user_id) ==
    user_id # Absent => ("user_id" \in DOMAIN doc /\ doc.user_id = user_id)

\* the filter of delete_one
MatchesPrescription(doc, prescription_id, user_id) ==
    doc._id = ObjectId(prescription_id) /\ MatchesOwner(doc, user_id)

\* the filter of delete_many
MatchesReminder(doc, prescription_id, user_id) ==
    /\ "prescription_id" \in DOMAIN doc
    /\ doc.prescription_id = prescription_id
    /\ MatchesOwner(doc, user_id)

\* a delete_many that leaves the reminders of the prescription in place
Remaining_Kept(docs, prescription_id, user_id) == docs

\* the documents delete_many leaves
Remaining(docs, prescription_id, user_id) ==
    SelectSeq(docs, LAMBDA doc : ~MatchesReminder(doc, prescription_id, user_id))

\* delete_one removes the first document that matches
WithoutFirst(docs, prescription_id, user_id) ==
    LET first == CHOOSE k \in 1..Len(docs) :
                    /\ MatchesPrescription(docs[k], prescription_id, user_id)
                    /\ \A j \in 1..(k - 1) :
                          ~MatchesPrescription(docs[j], prescription_id, user_id)
    IN  SubSeq(docs, 1, first - 1) \o SubSeq(docs, first + 1, Len(docs))

DeleteOne(prescription_id, user_id) ==
    /\ deletion.pc \in {"idle", "done"}
    /\ deletion.calls < MaxDeletes
    /\ LET call == [IdleDeletion EXCEPT !.prescription_id = prescription_id,
                                        !.user_id = user_id,
                                        !.calls = deletion.calls + 1]
           deleted_count ==
               IF \E k \in 1..Len(prescriptions) :
                     MatchesPrescription(prescriptions[k], prescription_id, user_id)
               THEN 1 ELSE 0
       IN  \/ /\ deleted_count = 0
              /\ deletion' = [call EXCEPT !.pc = "done",
                                          !.result = ErrorOutcome(NotFoundRaised)]
              /\ UNCHANGED prescriptions
           \/ /\ deleted_count = 1
              /\ prescriptions' = WithoutFirst(prescriptions, prescription_id, user_id)
              /\ deletion' = [call EXCEPT !.pc = "delete_many"]
           \/ \* delete_one raises
              /\ deletion' = [call EXCEPT !.pc = "done",
                                          !.result = ErrorOutcome(DatabaseRaised)]
              /\ UNCHANGED prescriptions
    /\ UNCHANGED <<response, object_ids, clock, advances, serverOffset, medications,
                   medication_logs, medication_confirmations, outbox, tickPc,
                   tickNow, log_id, results, ticks, inv>>

DeleteMany ==
    /\ deletion.pc = "delete_many"
    /\ LET rest == Remaining(medications, deletion.prescription_id, deletion.user_id)
       IN  \/ /\ medications' = rest
              /\ deletion' = [deletion EXCEPT
                    !.pc = "done",
                    !.result = Some([status_code |-> 200,
                                     status |-> "success",
                                     deleted_reminders |->
                                         Len(medications) - Len(rest)])]
           \/ \* delete_many raises
              /\ deletion' = [deletion EXCEPT
                    !.pc = "done", !.result = ErrorOutcome(DatabaseRaised)]
              /\ UNCHANGED medications
    /\ UNCHANGED <<response, object_ids, prescriptions, clock, advances, serverOffset,
                   medication_logs, medication_confirmations, outbox, tickPc,
                   tickNow, log_id, results, ticks, inv>>

(***************************************************************************)
(* db["medications"] is a schema-free collection: the tick reads whatever  *)
(* documents it holds, also those of a writer other than add_medication.   *)
(* Such a document may lack a field the loop of check_and_send_sms reads.  *)
(***************************************************************************)
Document(fields) ==
    [f \in fields |->
        CASE f = "patient_name" -> "Asha"
          [] f = "contact_number" -> <<"+", "1", "2">>
          [] f = "times" -> <<"08:00">>
          [] f = "duration_days" -> 1
          [] f = "start_date" -> 0]

FieldsRead == {"patient_name", "contact_number", "times", "duration_days", "start_date"}

Documents ==
    {Document(FieldsRead),
     Document(FieldsRead \ {"duration_days"}),
     Document(FieldsRead \ {"contact_number"})}

StoreDocument(doc) ==
    /\ Len(medications) < MaxDocuments
    /\ object_ids' = object_ids + 1
    /\ medications' = Append(medications,
            [f \in DOMAIN doc \cup {"_id"} |->
                IF f = "_id" THEN object_ids + 1 ELSE doc[f]])
    /\ UNCHANGED <<deletion, response, prescriptions, clock, advances, serverOffset, medication_logs,
                   medication_confirmations, outbox, tickPc, tickNow, log_id,
                   results, ticks, inv>>

(***************************************************************************)
(* schedular.py: check_and_send_sms.  TickBegin is lines 38-42 (now, the   *)
(* label and the query), TickMed lines 44-82 of one iteration of the loop  *)
(* (the window test and the insert) and TickSend its lines 85-87.          *)
(***************************************************************************)
current_time_str(now) == HHMM(KolkataWall(now) % MinutesPerDay)

\* meds.find({"times": current_time_str})
DueByLabel(label) ==
    SelectSeq(medications, LAMBDA med : label \in Range(med.times))

days_elapsed(now, med) == DateOf(KolkataWall(now)) - DateOf(med.start_date)

\* the test with the last day's bound taken inclusively
Skipped_Inclusive(now, med) ==
    days_elapsed(now, med) > med.duration_days \/ days_elapsed(now, med) < 0

\* line 53: the medication is skipped
Skipped(now, med) ==
    days_elapsed(now, med) >= med.duration_days \/ days_elapsed(now, med) < 0

\* med["start_date"] of line 45 or med["duration_days"] of line 53 raises
\* KeyError
RaisesBeforeTest(med) ==
    "start_date" \notin DOMAIN med \/ "duration_days" \notin DOMAIN med

\* med['patient_name'] of lines 58-62 or med["contact_number"] of line 85
\* raises KeyError (the one of line 74 is caught at line 81)
RaisesAfterTest(med) ==
    "patient_name" \notin DOMAIN med \/ "contact_number" \notin DOMAIN med

\* the iteration for med raises; nothing in the loop catches it
Raises(now, med) ==
    RaisesBeforeTest(med) \/ (~Skipped(now, med) /\ RaisesAfterTest(med))

\* lines 70-78
NewLogEntry(now, med) ==
    [_id |-> Len(medication_logs) + 1,
     medication_id |-> med._id,
     patient_name |-> med.patient_name,
     contact_number |-> med.contact_number,
     scheduled_time |-> current_time_str(now),
     sent_time |-> now,
     status |-> "pending",
     response_received |-> FALSE,
     response_time |-> Absent,
     response_message |-> Absent]

\* an insert that replaces the entries already logged
InsertLog_Replacing(now, med, ok) ==
    medication_logs' =
        IF ok THEN <<NewLogEntry(now, med)>>
        ELSE medication_logs

\* lines 79-82: insert_one, whose failure is caught
InsertLog(now, med, ok) ==
    medication_logs' =
        IF ok THEN Append(medication_logs, NewLogEntry(now, med))
        ELSE medication_logs

\* a call of send_sms or send_whatsapp and whether Twilio accepted it
Notification(channel, to, now, med, ok) ==
    [channel |-> channel, to |-> to, medication_id |-> med._id,
     scheduled_time |-> current_time_str(now), at |-> now,
     status |-> IF ok THEN "sent" ELSE "error"]

\* a tick whose second send is not made after a failed first one
Sends_StopAtFailure(now, med, smsOk, whatsappOk) ==
    {Notification("sms", med.contact_number, now, med, smsOk)} \cup
    IF smsOk
    THEN {Notification("whatsapp", WhatsappPrefix \o med.contact_number, now, med,
                       whatsappOk)}
    ELSE {}

\* lines 86-87: both senders catch their own exceptions
Sends(now, med, smsOk, whatsappOk) ==
    {Notification("sms", med.contact_number, now, med, smsOk),
     Notification("whatsapp", WhatsappPrefix \o med.contact_number, now, med,
                  whatsappOk)}

\* the loop of line 44 is over when the cursor is exhausted
TickReturns(rest) ==
    IF rest = <<>>
    THEN tickPc' = "idle" /\ tickNow' = 0
    ELSE tickPc' = "loop" /\ UNCHANGED tickNow

\* executions of check_and_send_sms in progress
RunningInstances == IF tickPc = "idle" THEN 0 ELSE 1

\* a scheduler that submits every run that comes due
CanSubmit_Always(running) == TRUE

\* the scheduler submits a run of the job that has come due unless
\* max_instances executions of it are in progress; the run is skipped then
CanSubmit(running) == running < max_instances

TickBegin ==
    /\ CanSubmit(RunningInstances)
    /\ ticks < MaxTicks
    /\ ticks' = ticks + 1
    /\ LET due == DueByLabel(current_time_str(clock)) IN
        /\ results' = due
        /\ IF due = <<>>
           THEN UNCHANGED <<tickPc, tickNow>>
           ELSE tickPc' = "loop" /\ tickNow' = clock
    /\ UNCHANGED <<deletion, response, object_ids, prescriptions, clock, advances, serverOffset, medications,
                   medication_logs,
                   medication_confirmations, outbox, log_id, inv>>

TickMed(insertOk) ==
    /\ tickPc = "loop"
    /\ results # <<>>
    /\ LET med == Head(results) IN
        IF Raises(tickNow, med)
        THEN \* the exception leaves check_and_send_sms: the run is over
             /\ UNCHANGED <<medication_logs, log_id>>
             /\ results' = <<>>
             /\ TickReturns(<<>>)
        ELSE IF Skipped(tickNow, med)
        THEN /\ UNCHANGED <<medication_logs, log_id>>
             /\ results' = Tail(results)
             /\ TickReturns(Tail(results))
        ELSE /\ InsertLog(tickNow, med, insertOk)
             /\ log_id' = IF insertOk THEN Some(Len(medication_logs) + 1) ELSE Absent
             /\ tickPc' = "send"
             /\ UNCHANGED <<tickNow, results>>
    /\ UNCHANGED <<deletion, response, object_ids, prescriptions, clock, advances, serverOffset, medications,
                   medication_confirmations, outbox, ticks, inv>>

TickSend(smsOk, whatsappOk) ==
    /\ tickPc = "send"
    /\ outbox' = outbox \cup Sends(tickNow, Head(results), smsOk, whatsappOk)
    /\ log_id' = Absent
    /\ results' = Tail(results)
    /\ TickReturns(Tail(results))
    /\ UNCHANGED <<deletion, response, object_ids, prescriptions, clock, advances, serverOffset, medications,
                   medication_logs,
                   medication_confirmations, ticks, inv>>

(***************************************************************************)
(* medication_controller.py: process_medication_response.  The coroutine   *)
(* can be suspended at each await, so every database call is a step:       *)
(*   Receive     lines 88-120, up to the first await                       *)
(*   FindOne     lines 124-147                                             *)
(*   UpdateOne   lines 151-166                                             *)
(*   InsertOne   lines 168-192                                             *)
(* A database call that raises is caught at line 194.                      *)
(***************************************************************************)
time_threshold(current_time) == current_time - LookbackMinutes

\* the filter without its condition on the status
MatchesQuery_AnyStatus(log, numbers, threshold) ==
    /\ log.contact_number \in Range(numbers)
    /\ log.sent_time >= threshold

\* the filter of find_one, lines 124-128
MatchesQuery(log, numbers, threshold) ==
    /\ log.contact_number \in Range(numbers)
    /\ log.status = "pending"
    /\ log.sent_time >= threshold

\* the same query sorted ascending
FindRecentLog_Oldest(numbers, threshold) ==
    LET matching == {k \in 1..Len(medication_logs) :
                        MatchesQuery(medication_logs[k], numbers, threshold)}
    IN  {medication_logs[k] : k \in
            {m \in matching :
                \A o \in matching :
                    medication_logs[o].sent_time >= medication_logs[m].sent_time}}

\* sort=[("sent_time", -1)]: the documents find_one may return
FindRecentLog(numbers, threshold) ==
    LET matching == {k \in 1..Len(medication_logs) :
                        MatchesQuery(medication_logs[k], numbers, threshold)}
    IN  {medication_logs[k] : k \in
            {m \in matching :
                \A o \in matching :
                    medication_logs[o].sent_time <= medication_logs[m].sent_time}}

\* an update that sets the status and leaves the response fields alone
SetResolution_StatusOnly(log, status, current_time, message) ==
    [log EXCEPT !.status = status]

\* the $set of update_one, lines 157-162
SetResolution(log, status, current_time, message) ==
    [log EXCEPT !.status = status,
                !.response_received = TRUE,
                !.response_time = Some(current_time),
                !.response_message = Some(message)]

\* an update that also closes the sender's other open entries as missed
UpdatedLogs_ExpiringOthers(id, status, current_time, message) ==
    [k \in 1..Len(medication_logs) |->
        IF medication_logs[k]._id = id
        THEN SetResolution(medication_logs[k], status, current_time, message)
        ELSE IF medication_logs[k].status = "pending"
        THEN [medication_logs[k] EXCEPT !.status = "missed"]
        ELSE medication_logs[k]]

\* update_one({"_id": id}, {"$set": ...}): no condition on the status
UpdatedLogs(id, status, current_time, message) ==
    [k \in 1..Len(medication_logs) |->
        IF medication_logs[k]._id = id
        THEN SetResolution(medication_logs[k], status, current_time, message)
        ELSE medication_logs[k]]

\* update_result.modified_count
ModifiedCount(id, status, current_time, message) ==
    Cardinality({k \in 1..Len(medication_logs) :
        /\ medication_logs[k]._id = id
        /\ SetResolution(medication_logs[k], status, current_time, message)
               # medication_logs[k]})

\* lines 169-182
ConfirmationRecord(r) ==
    LET confirmation_record ==
            [medication_id |-> r.recent_log[1].medication_id,
             patient_name |-> r.recent_log[1].patient_name,
             contact_number |-> r.normalized_contact,
             scheduled_time |-> r.recent_log[1].scheduled_time,
             confirmation_time |-> r.current_time,
             is_taken |-> is_positive(r.message),
             response_message |-> r.message,
             log_id |-> r.recent_log[1]._id]
    IN  IF "user_id" \in DOMAIN r.recent_log[1]
        THEN confirmation_record @@ [user_id |-> r.recent_log[1].user_id]
        ELSE confirmation_record

Result(status, is_taken, log_updated) ==
    Some([status |-> status, is_taken |-> is_taken, log_updated |-> log_updated])

ErrorResult == Result("error", FALSE, FALSE)

(***************************************************************************)
(* routes/twilio_webhook.py: twilio_webhook and whatsapp_webhook, which    *)
(* await process_medication_response and answer with a TwiML message.     *)
(* The two have the same branches and differ in the wording of the         *)
(* messages; the messages are given by the fixed text of twilio_webhook.   *)
(***************************************************************************)
AckTaken == "Your medication has been marked as taken."

AckMissed == "Your medication has been marked as missed."

AckNoPending == "We couldn't find a recent medication reminder for your number."

AckGeneric ==
    "Thank you for your message. If you need assistance, please contact your healthcare provider."

AckError ==
    "We're experiencing technical difficulties. Please contact your healthcare provider."

\* a handler whose if/elif chain has no else: no message for other results
response_message_NoElse(result) ==
    IF result.status = "success"
    THEN IF result.is_taken THEN Some(AckTaken) ELSE Some(AckMissed)
    ELSE IF result.status = "no_pending" THEN Some(AckNoPending)
    ELSE Absent

\* lines 31-39
response_message(result) ==
    IF result.status = "success"
    THEN IF result.is_taken THEN Some(AckTaken) ELSE Some(AckMissed)
    ELSE IF result.status = "no_pending" THEN Some(AckNoPending)
    ELSE Some(AckGeneric)

\* lines 18-58: outcome is the result process_medication_response returned,
\* or Absent when the await raised
twilio_webhook(outcome) ==
    IF outcome = Absent THEN Some(AckError) ELSE response_message(outcome[1])

\* the coroutine returns: its locals are gone, the webhook holds the result
\* and answers
Finish(i, result) ==
    inv' = [inv EXCEPT ![i] = [IdleInvocation EXCEPT
                                  !.pc = "done",
                                  !.contact_number = inv[i].contact_number,
                                  !.message = inv[i].message,
                                  !.result = result,
                                  !.twiml = twilio_webhook(result)]]

Receive(i, From, Body) ==
    /\ inv[i].pc = "idle"
    /\ \A j \in 1..(i - 1) : inv[j].pc # "idle"
    /\ IF ~recognized(Body)
       THEN inv' = [inv EXCEPT ![i].pc = "done",
                               ![i].contact_number = From,
                               ![i].message = Body,
                               ![i].result = Result("ignored", FALSE, FALSE),
                               ![i].twiml =
                                   twilio_webhook(Result("ignored", FALSE, FALSE))]
       ELSE inv' = [inv EXCEPT ![i].pc = "find",
                               ![i].contact_number = From,
                               ![i].normalized_contact = normalize_phone_number(From),
                               ![i].message = Body,
                               ![i].current_time = NaiveLocalNow(clock, serverOffset)]
    /\ UNCHANGED <<deletion, response, object_ids, prescriptions, clock, advances, serverOffset, medications,
                   medication_logs,
                   medication_confirmations, outbox, tickPc, tickNow, log_id,
                   results, ticks>>

FindOne(i) ==
    /\ inv[i].pc = "find"
    /\ LET found == FindRecentLog(possible_numbers(inv[i].contact_number),
                                  time_threshold(inv[i].current_time))
       IN  \/ /\ found = {}
              /\ Finish(i, Result("no_pending", FALSE, FALSE))
           \/ \E log \in found :
                inv' = [inv EXCEPT ![i].pc = "update", ![i].recent_log = Some(log)]
           \/ Finish(i, ErrorResult)
    /\ UNCHANGED <<deletion, response, object_ids, prescriptions, clock, advances, serverOffset, medications,
                   medication_logs,
                   medication_confirmations, outbox, tickPc, tickNow, log_id,
                   results, ticks>>

UpdateOne(i) ==
    /\ inv[i].pc = "update"
    /\ LET r == inv[i]
           id == r.recent_log[1]._id
       IN  \/ /\ medication_logs' =
                    UpdatedLogs(id, new_status(r.message), r.current_time, r.message)
              /\ inv' = [inv EXCEPT
                    ![i].pc = "insert",
                    ![i].modified_count =
                        ModifiedCount(id, new_status(r.message), r.current_time, r.message)]
           \/ /\ Finish(i, ErrorResult)
              /\ UNCHANGED medication_logs
    /\ UNCHANGED <<deletion, response, object_ids, prescriptions, clock, advances, serverOffset, medications,
                   medication_confirmations, outbox, tickPc, tickNow, log_id,
                   results, ticks>>

InsertOne(i) ==
    /\ inv[i].pc = "insert"
    /\ \/ /\ medication_confirmations' =
                Append(medication_confirmations, ConfirmationRecord(inv[i]))
          /\ Finish(i, Result("success", is_positive(inv[i].message),
                              inv[i].modified_count > 0))
       \/ /\ Finish(i, ErrorResult)
          /\ UNCHANGED medication_confirmations
    /\ UNCHANGED <<deletion, response, object_ids, prescriptions, clock, advances, serverOffset, medications,
                   medication_logs,
                   outbox, tickPc, tickNow, log_id, results, ticks>>

(***************************************************************************)
(* medication_controller.py: the read-only queries.  They change nothing   *)
(* and are operators on the collections and on current_time, the server's  *)
(* datetime.now().                                                         *)
(***************************************************************************)
\* re.IGNORECASE on the names of the model
CaseFold(name) == IF name \in {"Asha", "asha", "ASHA"} THEN "asha" ELSE name

QueryNames == {"Asha", "asha", "Ravi"}

\* {"patient_name": {"$regex": "^" + re.escape(patient_name) + "$", "$options": "i"}}
MatchesPatient(doc, patient_name) ==
    /\ "patient_name" \in DOMAIN doc
    /\ CaseFold(doc.patient_name) = CaseFold(patient_name)

\* if user_id: query["user_id"] = user_id
MatchesUser(doc, user_id) ==
    user_id # Absent => ("user_id" \in DOMAIN doc /\ doc.user_id = user_id)

\* a list sorted by an integer key, elements of equal key in their order:
\* pairs <<key, element>>
RECURSIVE InsertByKey(_, _)
InsertByKey(sorted, pair) ==
    IF sorted = <<>> THEN <<pair>>
    ELSE IF sorted[Len(sorted)][1] <= pair[1] THEN Append(sorted, pair)
    ELSE Append(InsertByKey(SubSeq(sorted, 1, Len(sorted) - 1), pair),
                sorted[Len(sorted)])

RECURSIVE SortByKey(_)
SortByKey(pairs) ==
    IF pairs = <<>> THEN <<>>
    ELSE InsertByKey(SortByKey(SubSeq(pairs, 1, Len(pairs) - 1)), pairs[Len(pairs)])

Elements(pairs) == [k \in 1..Len(pairs) |-> pairs[k][2]]

\* the slot labels of the model and their minute of the day; for labels of
\* the form HH:MM the order of the strings is the order of the minutes
SlotMinutes == {8 * 60, 8 * 60 + 1, 20 * 60}

MinuteOf(label) == CHOOSE m \in SlotMinutes : HHMM(m) = label

\* datetime.now().replace(hour=0, minute=0, second=0, microsecond=0)
Today(current_time) == DateOf(current_time) * MinutesPerDay

Tomorrow(current_time) == Today(current_time) + MinutesPerDay

\* log_dict of lines 321-334
LogRow(log) ==
    [_id |-> <<log._id>>,
     medication_id |-> log.medication_id,
     patient_name |-> log.patient_name,
     contact_number |-> log.contact_number,
     scheduled_time |-> log.scheduled_time,
     sent_time |-> Some(log.sent_time),
     status |-> log.status,
     response_received |-> log.response_received,
     response_time |-> log.response_time,
     response_message |-> log.response_message]

\* lines 378-390: the row of a slot not logged today
PendingRow(medication_id, scheduled_time, patient_name) ==
    [_id |-> <<"pending", medication_id, scheduled_time>>,
     medication_id |-> medication_id,
     patient_name |-> patient_name,
     contact_number |-> <<>>,
     scheduled_time |-> scheduled_time,
     sent_time |-> Absent,
     status |-> "pending",
     response_received |-> FALSE,
     response_time |-> Absent,
     response_message |-> Absent]

\* lines 310-335: find(query).sort("sent_time", 1)
TodayLogs(patient_name, user_id, current_time) ==
    LET matching == SelectSeq(medication_logs, LAMBDA log :
                        /\ MatchesPatient(log, patient_name)
                        /\ MatchesUser(log, user_id)
                        /\ log.sent_time >= Today(current_time)
                        /\ log.sent_time < Tomorrow(current_time))
        sorted == Elements(SortByKey([k \in 1..Len(matching) |->
                                        <<matching[k].sent_time, matching[k]>>]))
    IN  [k \in 1..Len(sorted) |-> LogRow(sorted[k])]

\* lines 341-345
ActiveMedsQuery(patient_name, user_id, current_time) ==
    SelectSeq(medications, LAMBDA medication :
        /\ MatchesPatient(medication, patient_name)
        /\ MatchesUser(medication, user_id)
        /\ "start_date" \in DOMAIN medication
        /\ medication.start_date <= current_time)

\* lines 351-355
StillActive(medication, current_time) ==
    current_time <= medication.start_date + medication.duration_days * MinutesPerDay

\* lines 360-364: find_one by medication, slot and day
ExistingLog(medication, scheduled_time, current_time) ==
    \E k \in 1..Len(medication_logs) :
        /\ medication_logs[k].medication_id = medication._id
        /\ medication_logs[k].scheduled_time = scheduled_time
        /\ medication_logs[k].sent_time >= Today(current_time)
        /\ medication_logs[k].sent_time < Tomorrow(current_time)

\* lines 349-390 for the medications of the cursor
RECURSIVE PendingRows(_, _, _)
PendingRows(meds, patient_name, current_time) ==
    IF meds = <<>> THEN <<>>
    ELSE LET medication == Head(meds)
             times == IF "times" \in DOMAIN medication THEN medication.times ELSE <<>>
             slots == IF StillActive(medication, current_time)
                      THEN SelectSeq(times, LAMBDA t :
                               ~ExistingLog(medication, t, current_time))
                      ELSE <<>>
         IN  [k \in 1..Len(slots) |->
                 PendingRow(medication._id, slots[k], patient_name)]
             \o PendingRows(Tail(meds), patient_name, current_time)

StatusSummary(rows) ==
    [total |-> Len(rows),
     taken |-> Cardinality({k \in 1..Len(rows) : rows[k].status = "taken"}),
     missed |-> Cardinality({k \in 1..Len(rows) : rows[k].status = "missed"}),
     pending |-> Cardinality({k \in 1..Len(rows) : rows[k].status = "pending"})]

\* the rows in the order they were collected
Unsorted(rows) == rows

\* today_logs.sort(key=lambda x: x["scheduled_time"])
SortByScheduledTime(rows) ==
    Elements(SortByKey([k \in 1..Len(rows) |->
                           <<MinuteOf(rows[k].scheduled_time), rows[k]>>]))

\* medication["duration_days"] of line 352 raises KeyError: the handler
\* answers with status code 500
StatusRaises(patient_name, user_id, current_time) ==
    \E m \in 1..Len(medications) :
        /\ MatchesPatient(medications[m], patient_name)
        /\ MatchesUser(medications[m], user_id)
        /\ "start_date" \in DOMAIN medications[m]
        /\ medications[m].start_date <= current_time
        /\ "duration_days" \notin DOMAIN medications[m]

get_medication_status(patient_name, user_id, current_time) ==
    IF StatusRaises(patient_name, user_id, current_time)
    THEN [status |-> "error"]
    ELSE LET today_logs ==
                 SortByScheduledTime(
                     TodayLogs(patient_name, user_id, current_time)
                     \o PendingRows(ActiveMedsQuery(patient_name, user_id, current_time),
                                    patient_name, current_time))
         IN  [status |-> "success",
              patient_name |-> patient_name,
              date |-> DateOf(current_time),
              today_summary |-> StatusSummary(today_logs),
              today_logs |-> today_logs]

\* lines 217-234: find(query) and log_dict
AdherenceLogs(patient_name, days, user_id, current_time) ==
    LET matching == SelectSeq(medication_logs, LAMBDA log :
                        /\ MatchesPatient(log, patient_name)
                        /\ MatchesUser(log, user_id)
                        /\ log.sent_time >= current_time - days * MinutesPerDay
                        /\ log.sent_time <= current_time)
    IN  [k \in 1..Len(matching) |-> LogRow(matching[k])]

\* the rate cut off after its second decimal
Round2_Truncated(numerator, denominator) == (numerator * 10000) \div denominator

\* round(numerator / denominator * 100, 2), in hundredths: the nearest
\* hundredth, the even one of two equally near
Round2(numerator, denominator) ==
    LET q == (numerator * 10000) \div denominator
        r == (numerator * 10000) % denominator
    IN  IF 2 * r > denominator \/ (2 * r = denominator /\ q % 2 = 1)
        THEN q + 1
        ELSE q

\* lines 200-253; adherence_rate in hundredths of a percent
get_medication_adherence(patient_name, days, user_id, current_time) ==
    LET logs == AdherenceLogs(patient_name, days, user_id, current_time)
        total_reminders == Len(logs)
        taken_count == Cardinality({k \in 1..Len(logs) : logs[k].status = "taken"})
        missed_count == Cardinality({k \in 1..Len(logs) : logs[k].status = "missed"})
        pending_count == Cardinality({k \in 1..Len(logs) : logs[k].status = "pending"})
    IN  [status |-> "success",
         patient_name |-> patient_name,
         period_days |-> days,
         total_reminders |-> total_reminders,
         taken |-> taken_count,
         missed |-> missed_count,
         pending |-> pending_count,
         adherence_rate |-> IF total_reminders > 0
                            THEN Round2(taken_count, total_reminders)
                            ELSE 0,
         logs |-> logs]

\* routes/medication_routes.py: GET /medication-adherence/{patient_name}
Adherence(patient_name, days) ==
    /\ response = Absent \/ Len(response) < MaxQueries
    /\ response' = Append(response,
            get_medication_adherence(patient_name, days, Absent,
                                     NaiveLocalNow(clock, serverOffset)))
    /\ UNCHANGED <<deletion, object_ids, prescriptions, clock, advances, serverOffset,
                   medications,
                   medication_logs, medication_confirmations, outbox, tickPc,
                   tickNow, log_id, results, ticks, inv>>

(***************************************************************************)
(* Specification.                                                          *)
(***************************************************************************)
\* one step of the system, the environment's inputs drawn from the given sets
\* the clock, the tick and the reply handler
Handlers(deltas, addresses, texts, outcomes) ==
    \/ \E d \in deltas : Advance(d)
    \/ TickBegin
    \/ \E insertOk \in BOOLEAN : TickMed(insertOk)
    \/ \E smsOk \in outcomes, whatsappOk \in outcomes : TickSend(smsOk, whatsappOk)
    \/ \E i \in Invocations, a \in addresses, b \in texts : Receive(i, a, b)
    \/ \E i \in Invocations : FindOne(i)
    \/ \E i \in Invocations : UpdateOne(i)
    \/ \E i \in Invocations : InsertOne(i)

Step(deltas, slotLists, durations, contacts, addresses, texts, outcomes) ==
    \/ \E p \in PatientNames, t \in slotLists, n \in durations,
          s \in StartDates, c \in contacts : add_medication(p, t, n, s, c)
    \/ Handlers(deltas, addresses, texts, outcomes)

\* the senders' outcomes where a specification does not vary them
Delivered == {TRUE}

Next ==
    Step(Deltas, SlotLists, Durations, StoredContacts, InboundAddresses, ReplyTexts,
         Delivered)

Spec == Init /\ [][Next]_vars

\* the same system with every text of InboundTexts arriving, for one
\* medication with one slot and replies from its own number
NextTexts ==
    Step({1}, {<<"08:00">>}, {1}, StoredContacts, StoredContacts, InboundTexts,
         Delivered)

SpecTexts == Init /\ [][NextTexts]_vars

\* the same system over several calendar days: the clock also advances by a
\* day and a medication lasts one or two days
DayDeltas == {1, MinutesPerDay}

DayDurations == {1, 2}

NextDays ==
    Step(DayDeltas, SlotLists, DayDurations, StoredContacts, StoredContacts,
         {TextYes}, Delivered)

SpecDays == Init /\ [][NextDays]_vars

\* the same system with documents of another writer in db["medications"]
NextDocuments ==
    \/ Step({1}, {<<"08:00">>}, {1}, StoredContacts, StoredContacts, {TextYes},
            Delivered)
    \/ \E doc \in Documents : StoreDocument(doc)

SpecDocuments == Init /\ [][NextDocuments]_vars

\* the same system with Twilio accepting or refusing each send
NextSends ==
    Step({1}, SlotLists, {1}, StoredContacts, StoredContacts, {TextYes}, BOOLEAN)

SpecSends == Init /\ [][NextSends]_vars

\* the same system for a medication with a morning and an evening slot, the
\* clock going from the one to the other
HalfDay == 12 * 60

MorningEvening == {<<"08:00", "20:00">>, <<"20:00", "08:00">>}

NextStatus ==
    Step({1, HalfDay}, MorningEvening, {1}, StoredContacts, StoredContacts,
         {TextYes}, Delivered)

SpecStatus == Init /\ [][NextStatus]_vars

\* the same system with prescriptions uploaded with and without the
\* X-User-ID header
UserIds == {Absent, Some("u1")}

UserSchedules ==
    {[user_id |-> u, patient_name |-> "Asha", contact_number |-> <<"+", "1", "2">>] :
        u \in UserIds}

MessageTimes == {<<"08:00">>, <<"08:00", "08:00">>}

DurationTexts == {<< <<"1", " ", "d">> >>, << <<"0">>, <<"x">> >>}

NextAccounts ==
    \/ Handlers({1}, StoredContacts, {TextYes}, Delivered)
    \/ \E u \in UserSchedules, t \in MessageTimes, n \in DurationTexts :
          process_prescription(u, t, n)

SpecAccounts == Init /\ [][NextAccounts]_vars

\* the same system with lists of times and values of duration_days that
\* the Medicine model of main.py accepts and that make no schedule
AnySlotLists == {<<>>, <<"08:00">>}

AnyDurations == {-1, 0}

NextAnySchedule ==
    \/ Step({1}, AnySlotLists, AnyDurations, StoredContacts, StoredContacts,
            {TextYes}, Delivered)
    \/ \E u \in {v \in UserSchedules : v.user_id = Absent}, n \in DurationTexts :
          process_prescription(u, <<"08:00">>, n)

SpecAnySchedule == Init /\ [][NextAnySchedule]_vars

\* the same system with the contact number stored in one of two written
\* forms of one number and replies arriving over SMS and over WhatsApp
StoredForms == {<<"+", "1", "2">>, <<"+", "1", " ", "2">>}

FormAddresses ==
    {<<"+", "1", "2">>, <<"w", "h", "a", "t", "s", "a", "p", "p", ":", "+", "1", "2">>}

NextForms ==
    Step({1}, {<<"08:00">>}, {1}, StoredForms, FormAddresses, {TextYes}, Delivered)

SpecForms == Init /\ [][NextForms]_vars

\* the same system with replies from every address of up to MaxLen
\* characters of '+' and '1', from the number of the medication and from
\* the address "whatsapp:+1 234-567-8900"
FormattedAddress ==
    WhatsappPrefix \o <<"+", "1", " ", "2", "3", "4", "-", "5", "6", "7", "-",
                        "8", "9", "0", "0">>

RECURSIVE StringsOf(_, _)
StringsOf(alphabet, n) ==
    IF n = 0 THEN {<<>>}
    ELSE {Append(s, c) : s \in StringsOf(alphabet, n - 1), c \in alphabet}

PhoneStrings ==
    UNION {StringsOf({"+", "1"}, n) : n \in 1..MaxLen}
    \cup StoredContacts \cup {FormattedAddress}

NextPhones ==
    Step({1}, {<<"08:00">>}, {1}, StoredContacts, PhoneStrings, {TextYes}, Delivered)

SpecPhones == Init /\ [][NextPhones]_vars

\* the tick and one reply with prescriptions uploaded and deleted, with and
\* without the X-User-ID header, within one minute
PrescriptionIds == {Str(n) : n \in 1..2}

DeleteUsers == {Absent, Some("u1"), Some("u2")}

OneDayText == << <<"1", " ", "d">> >>

NextDelete ==
    \/ TickBegin
    \/ \E insertOk \in BOOLEAN : TickMed(insertOk)
    \/ TickSend(TRUE, TRUE)
    \/ Receive(1, <<"+", "1", "2">>, TextYes)
    \/ FindOne(1)
    \/ UpdateOne(1)
    \/ InsertOne(1)
    \/ \E u \in UserSchedules : process_prescription(u, <<"08:00">>, OneDayText)
    \/ \E p \in PrescriptionIds, u \in DeleteUsers : DeleteOne(p, u)
    \/ DeleteMany

SpecDelete == Init /\ [][NextDelete]_vars

\* the same system for a one-day prescription, the clock going on to one
\* minute before the same time of the next day
AlmostADay == MinutesPerDay - 1

NextActive ==
    \/ Handlers({1, AlmostADay}, StoredContacts, {TextYes}, Delivered)
    \/ \E u \in {v \in UserSchedules : v.user_id = Absent} :
          process_prescription(u, <<"08:00">>, OneDayText)

SpecActive == Init /\ [][NextActive]_vars

\* the adherence query over generated log contents: of each status up to
\* MaxPerStatus entries of the patient sent ten minutes ago, and possibly
\* an entry of another patient and one sent a day before the start
LoggedEntry(id, patient_name, status, sent_time) ==
    [_id |-> id,
     medication_id |-> 1,
     patient_name |-> patient_name,
     contact_number |-> <<"+", "1", "2">>,
     scheduled_time |-> "08:00",
     sent_time |-> sent_time,
     status |-> status,
     response_received |-> status # "pending",
     response_time |-> IF status = "pending" THEN Absent ELSE Some(sent_time + 1),
     response_message |-> IF status = "pending" THEN Absent
                          ELSE IF status = "taken" THEN Some(TextYes)
                          ELSE Some(TextNo)]

LogContent(taken, missed, pending, other, old) ==
    LET statuses == [k \in 1..taken |-> "taken"] \o [k \in 1..missed |-> "missed"]
                    \o [k \in 1..pending |-> "pending"]
        recent == [k \in 1..Len(statuses) |->
                      LoggedEntry(k, "Asha", statuses[k], StartClock - 10)]
        others == [k \in 1..other |->
                      LoggedEntry(Len(statuses) + k, "Ravi", "taken", StartClock - 10)]
        olds == [k \in 1..old |->
                    LoggedEntry(Len(statuses) + other + k, "Asha", "taken",
                                StartClock - MinutesPerDay)]
    IN  recent \o others \o olds

InitAdherence ==
    /\ clock = StartClock
    /\ advances = 0
    /\ serverOffset \in ServerOffsets
    /\ prescriptions = <<>>
    /\ medications = <<>>
    /\ \E taken \in 0..MaxPerStatus, missed \in 0..MaxPerStatus,
          pending \in 0..MaxPerStatus, other \in 0..1, old \in 0..1 :
            medication_logs = LogContent(taken, missed, pending, other, old)
    /\ medication_confirmations = <<>>
    /\ outbox = {}
    /\ tickPc = "idle"
    /\ tickNow = 0
    /\ log_id = Absent
    /\ results = <<>>
    /\ ticks = 0
    /\ inv = [i \in Invocations |-> IdleInvocation]
    /\ response = Absent
    /\ object_ids = 0
    /\ deletion = IdleDeletion

PeriodDays == {1, 7}

NextAdherence ==
    \/ \E d \in {1} : Advance(d)
    \/ \E patient_name \in QueryNames, days \in PeriodDays :
          Adherence(patient_name, days)

SpecAdherence == InitAdherence /\ [][NextAdherence]_vars

(***************************************************************************)
(* Vocabulary of the properties.                                           *)
(***************************************************************************)
LogIndexes == 1..Len(medication_logs)

Resolved(log) == log.status \in {"taken", "missed"}

\* calendar day of sent_time, in the zone the tick stamps it in
EntryDay(log) == DateOf(KolkataWall(log.sent_time))

ConfirmationsOf(id) ==
    {c \in 1..Len(medication_confirmations) : medication_confirmations[c].log_id = id}

Returned(i) == inv[i].pc = "done"

StatusOf(i) == inv[i].result[1].status

Succeeded == {i \in Invocations : Returned(i) /\ StatusOf(i) = "success"}

\* no invocation stopped on a database error
NoDatabaseError == \A i \in Invocations : Returned(i) => StatusOf(i) # "error"

\* no invocation is between its find_one and its return
Quiescent == \A i \in Invocations : inv[i].pc \in {"idle", "done"}

\* steps of invocation i
FindStep(i) == inv[i].pc = "find" /\ inv'[i].pc # "find"

UpdateStep(i) == inv[i].pc = "update" /\ inv'[i].pc = "insert"

AppendStep(i) ==
    /\ inv[i].pc = "insert"
    /\ inv'[i].pc = "done"
    /\ Len(medication_confirmations') = Len(medication_confirmations) + 1

RaisedIn(i) == inv'[i].pc = "done" /\ inv'[i].result[1].status = "error"

\* the addresses a reply from the sender of invocation i is matched against
CandidateSet(i) == Range(possible_numbers(inv[i].contact_number))

\* pending entries for the sender of i dispatched no earlier than `since`
PendingFor(i, since) ==
    {k \in LogIndexes :
        /\ medication_logs[k].status = "pending"
        /\ medication_logs[k].contact_number \in CandidateSet(i)
        /\ medication_logs[k].sent_time >= since}

StatusCount(logs, status) ==
    Cardinality({k \in 1..Len(logs) : logs[k].status = status})

(***************************************************************************)
(* C1: at most one log entry exists for a medication, a slot label and a   *)
(* calendar day, also when the tick runs twice within one minute.          *)
(***************************************************************************)
C1_AtMostOneEntryPerSlotDay ==
    \A j, k \in LogIndexes :
        (/\ medication_logs[j].medication_id = medication_logs[k].medication_id
         /\ medication_logs[j].scheduled_time = medication_logs[k].scheduled_time
         /\ EntryDay(medication_logs[j]) = EntryDay(medication_logs[k]))
        => j = k

(***************************************************************************)
(* C2: of the replies racing for one pending entry exactly one resolves it *)
(* and returns success, and exactly one Confirmation is created.           *)
(***************************************************************************)
C2_OneReplyResolves ==
    (Len(medication_logs) = 1 /\ Succeeded # {})
    => /\ Cardinality(Succeeded) = 1
       /\ Len(medication_confirmations) = 1

(***************************************************************************)
(* C3: once an entry is taken or missed, no step changes its status, its   *)
(* response_time or its response_message.                                  *)
(***************************************************************************)
C3_ResolvedEntryIsFinal ==
    [][\A k \in LogIndexes :
         Resolved(medication_logs[k]) =>
            /\ medication_logs'[k].status = medication_logs[k].status
            /\ medication_logs'[k].response_time = medication_logs[k].response_time
            /\ medication_logs'[k].response_message = medication_logs[k].response_message]_vars

(***************************************************************************)
(* C4: a resolved entry has exactly one Confirmation and a pending entry   *)
(* none.  Stated for the states in which no reply is being processed and   *)
(* no database call has failed.                                            *)
(***************************************************************************)
C4_OneConfirmationPerResolvedEntry ==
    (Quiescent /\ NoDatabaseError)
    => \A k \in LogIndexes :
          Cardinality(ConfirmationsOf(medication_logs[k]._id)) =
              IF Resolved(medication_logs[k]) THEN 1 ELSE 0

(***************************************************************************)
(* C5: an invocation goes on to its Confirmation only for an entry it      *)
(* found pending when it updated it, and appends the Confirmation only if  *)
(* its update modified the entry.                                          *)
(***************************************************************************)
C5_ConfirmationOnlyAfterOwnTransition ==
    [][\A i \in Invocations :
         /\ UpdateStep(i) =>
              \A k \in LogIndexes :
                  medication_logs[k]._id = inv[i].recent_log[1]._id
                  => medication_logs[k].status = "pending"
         /\ AppendStep(i) => inv[i].modified_count > 0]_vars

(***************************************************************************)
(* C6: a text that contains a positive and a negative keyword, or neither, *)
(* is ignored: no invocation succeeds with it, no entry is resolved by it  *)
(* and no Confirmation carries it.                                         *)
(***************************************************************************)
Ambiguous(message) == is_positive(message) = is_negative(message)

C6_AmbiguousTextIgnored ==
    /\ \A i \in Invocations :
          (Returned(i) /\ Ambiguous(inv[i].message)) => StatusOf(i) # "success"
    /\ \A k \in LogIndexes :
          Resolved(medication_logs[k])
          => ~Ambiguous(medication_logs[k].response_message[1])
    /\ \A c \in 1..Len(medication_confirmations) :
          ~Ambiguous(medication_confirmations[c].response_message)

(***************************************************************************)
(* C7: "yes" sets the pending entry to taken and "No thanks" to missed;    *)
(* "maybe" and "yes no" are ignored and leave the entry pending.           *)
(***************************************************************************)
C7_ClassifierExamples ==
    /\ \A k \in LogIndexes :
          Resolved(medication_logs[k]) =>
             LET text == medication_logs[k].response_message[1] IN
             /\ text \notin {TextMaybe, TextYesNo}
             /\ text = TextYes => medication_logs[k].status = "taken"
             /\ text = TextNoThanks => medication_logs[k].status = "missed"
    /\ \A i \in Invocations :
          Returned(i) =>
             /\ inv[i].message \in {TextMaybe, TextYesNo} => StatusOf(i) # "success"
             /\ inv[i].message \in {TextYes, TextNoThanks} => StatusOf(i) # "ignored"

(***************************************************************************)
(* C8: the find_one of a recognized reply selects the pending entry with   *)
(* the greatest sent_time among those of the sender's candidate set sent   *)
(* no earlier than current_time - 4 hours (current_time being the          *)
(* handler's datetime.now()), and answers no_pending when there is none;   *)
(* the update changes the selected entry and no other.                     *)
(***************************************************************************)
C8_MostRecentPendingInWindow ==
    [][\A i \in Invocations :
         /\ (FindStep(i) /\ ~RaisedIn(i)) =>
              LET window == PendingFor(i, inv[i].current_time - LookbackMinutes) IN
              IF window = {}
              THEN inv'[i].pc = "done" /\ inv'[i].result[1].status = "no_pending"
              ELSE /\ inv'[i].pc = "update"
                   /\ \E k \in window :
                        /\ inv'[i].recent_log = Some(medication_logs[k])
                        /\ \A o \in window :
                             medication_logs[o].sent_time <= medication_logs[k].sent_time
         /\ UpdateStep(i) =>
              \A k \in LogIndexes :
                 IF medication_logs[k]._id = inv[i].recent_log[1]._id
                 THEN medication_logs'[k].status = new_status(inv[i].message)
                 ELSE medication_logs'[k] = medication_logs[k]]_vars

\* the newer of two pending entries in the window has been resolved, the
\* older is still pending
C8_Witness ==
    \E i \in Invocations :
        /\ inv[i].pc = "insert"
        /\ Len(medication_logs) = 2
        /\ inv[i].recent_log[1]._id = 2
        /\ medication_logs[2].status # "pending"
        /\ medication_logs[1].status = "pending"
        /\ medication_logs[1].contact_number \in CandidateSet(i)
        /\ medication_logs[1].sent_time < medication_logs[2].sent_time
        /\ medication_logs[1].sent_time >= inv[i].current_time - LookbackMinutes

(***************************************************************************)
(* C9: an affirmative reply that is looked up less than 4 hours of real    *)
(* time after the dispatch of a pending entry for its sender finds an      *)
(* entry to resolve, whatever the server's local-time offset.              *)
(***************************************************************************)
C9_ReplyWithinFourHoursResolves ==
    [][\A i \in Invocations :
         (/\ FindStep(i)
          /\ ~RaisedIn(i)
          /\ is_positive(inv[i].message)
          /\ \E k \in PendingFor(i, 0) :
                clock - medication_logs[k].sent_time < LookbackMinutes)
         => inv'[i].pc = "update"]_vars

(***************************************************************************)
(* C10: a recognized reply looked up when the sender has a resolved entry  *)
(* and no pending one returns no_pending, changes no entry, adds no        *)
(* Confirmation and leaves the counts of taken, missed and pending alone.  *)
(***************************************************************************)
C10_SecondReplyChangesNothing ==
    [][\A i \in Invocations :
         (/\ FindStep(i)
          /\ ~RaisedIn(i)
          /\ PendingFor(i, 0) = {}
          /\ \E k \in LogIndexes :
                /\ Resolved(medication_logs[k])
                /\ medication_logs[k].contact_number \in CandidateSet(i))
         => /\ inv'[i].pc = "done"
            /\ inv'[i].result[1].status = "no_pending"
            /\ medication_logs' = medication_logs
            /\ medication_confirmations' = medication_confirmations
            /\ \A st \in {"taken", "missed", "pending"} :
                  StatusCount(medication_logs', st) = StatusCount(medication_logs, st)]_vars

\* "yes" resolved the only entry, a later "No thanks" found nothing pending
C10_Witness ==
    /\ Len(medication_logs) = 1
    /\ medication_logs[1].status = "taken"
    /\ Len(medication_confirmations) = 1
    /\ Returned(1) /\ StatusOf(1) = "success" /\ inv[1].message = TextYes
    /\ Returned(2) /\ StatusOf(2) = "no_pending" /\ inv[2].message = TextNoThanks
    /\ medication_logs[1].contact_number
          \in Range(possible_numbers(inv[2].contact_number))

(***************************************************************************)
(* C11: an iteration of the tick for a medication selected by the label of *)
(* now dispatches (hands both notifications to the senders and inserts the *)
(* entry unless the insert fails) exactly when 0 <= daysElapsed <          *)
(* duration_days, daysElapsed being the Kolkata date of now minus the date *)
(* of start_date; the tick selects exactly the medications whose times     *)
(* contain the label; hence every entry lies on one of the duration_days   *)
(* days from the start date, and a medication outside the window gets no   *)
(* entry and no change.                                                    *)
(***************************************************************************)
LoopStep == tickPc = "loop" /\ tickPc' # "loop"

SendStep == tickPc = "send" /\ tickPc' # "send"

RunEnds == tickPc # "idle" /\ tickPc' = "idle"

\* the notifications handed to the senders for med by the run of instant now
Attempts(box, med, now) ==
    {n \in box : n.medication_id = med._id /\ n.at = now}

QueryStep == tickPc = "idle" /\ ticks' = ticks + 1

InWindow(now, med) ==
    LET daysElapsed == DateOf(KolkataWall(now)) - DateOf(med.start_date)
    IN  0 <= daysElapsed /\ daysElapsed < med.duration_days

C11_DispatchExactlyInWindow ==
    [][/\ QueryStep =>
            \A m \in 1..Len(medications) :
                (HHMM(KolkataWall(clock) % MinutesPerDay) \in Range(medications[m].times))
                <=> (\E r \in 1..Len(results') : results'[r] = medications[m])
       /\ LoopStep =>
            LET med == Head(results)
                label == HHMM(KolkataWall(tickNow) % MinutesPerDay)
            IN  /\ outbox' = outbox
                /\ IF InWindow(tickNow, med)
                   THEN /\ tickPc' = "send"
                        /\ \/ medication_logs' = medication_logs
                           \/ /\ Len(medication_logs') = Len(medication_logs) + 1
                              /\ SubSeq(medication_logs', 1, Len(medication_logs))
                                    = medication_logs
                              /\ LET e == medication_logs'[Len(medication_logs')] IN
                                    /\ e.medication_id = med._id
                                    /\ e.scheduled_time = label
                                    /\ e.sent_time = tickNow
                                    /\ e.status = "pending"
                   ELSE /\ tickPc' # "send"
                        /\ medication_logs' = medication_logs
       /\ SendStep =>
            /\ InWindow(tickNow, Head(results))
            /\ {n.channel : n \in Attempts(outbox', Head(results), tickNow)}
                  = {"sms", "whatsapp"}
            /\ \A n \in Attempts(outbox', Head(results), tickNow) :
                  n.scheduled_time = HHMM(KolkataWall(tickNow) % MinutesPerDay)
       /\ \A k \in 1..Len(medication_logs') :
            LET e == medication_logs'[k] IN
            \A m \in 1..Len(medications') :
                medications'[m]._id = e.medication_id =>
                    /\ e.scheduled_time \in Range(medications'[m].times)
                    /\ e.scheduled_time = HHMM(KolkataWall(e.sent_time) % MinutesPerDay)
                    /\ EntryDay(e) - DateOf(medications'[m].start_date)
                          \in 0..(medications'[m].duration_days - 1)]_vars

\* a two-day medication has its entries on the start date and on the next
\* day, one tick in each
C11_Witness ==
    /\ Len(medications) = 1
    /\ medications[1].duration_days = 2
    /\ Len(medication_logs) = 2
    /\ EntryDay(medication_logs[1]) = DateOf(medications[1].start_date)
    /\ EntryDay(medication_logs[2]) = EntryDay(medication_logs[1]) + 1
    /\ medication_logs[1].scheduled_time = medication_logs[2].scheduled_time

(***************************************************************************)
(* C12: when a run of check_and_send_sms ends, every medication that was   *)
(* still in its cursor, has all the fields the loop reads and is within    *)
(* its window has had both notifications attempted in this run, whatever   *)
(* happened to the medication processed last.                              *)
(***************************************************************************)
WellFormed(med) == FieldsRead \subseteq DOMAIN med

C13_SendFailuresIndependent ==
    [][SendStep =>
         LET med == Head(results) IN
         /\ {n.channel : n \in Attempts(outbox', med, tickNow)} = {"sms", "whatsapp"}
         /\ outbox \subseteq outbox'
         /\ medication_logs' = medication_logs
         /\ log_id # Absent =>
               \E k \in 1..Len(medication_logs') :
                   /\ medication_logs'[k]._id = log_id[1]
                   /\ medication_logs'[k].medication_id = med._id
                   /\ medication_logs'[k].sent_time = tickNow]_vars

\* both sends of a dispatch failed and its entry exists, still pending
C13_Witness ==
    /\ tickPc = "idle"
    /\ \E k \in LogIndexes :
          /\ medication_logs[k].status = "pending"
          /\ \E n, o \in outbox :
                /\ n.channel = "sms" /\ o.channel = "whatsapp"
                /\ n.status = "error" /\ o.status = "error"
                /\ n.medication_id = medication_logs[k].medication_id
                /\ o.medication_id = medication_logs[k].medication_id
                /\ n.at = medication_logs[k].sent_time
                /\ o.at = medication_logs[k].sent_time
          /\ \A n \in outbox : n.status = "error"

(***************************************************************************)
(* C14: a run of check_and_send_sms starts only when no run is in          *)
(* progress: while a run is in progress, also after its minute has passed, *)
(* no step begins another: the count of runs started stays, the run in     *)
(* progress keeps its now, and its cursor is only consumed, never refilled.*)
(***************************************************************************)
C14_TickNeverOverlaps ==
    [][/\ ticks' # ticks => tickPc = "idle"
       /\ tickPc # "idle" =>
             /\ tickPc' # "idle" => tickNow' = tickNow
             /\ \E j \in 0..Len(results) :
                   results' = SubSeq(results, j + 1, Len(results))]_vars

\* a run is still in progress after the minute of its now has passed and a
\* further run is left to start
C14_Witness ==
    /\ tickPc # "idle"
    /\ clock >= tickNow + 1
    /\ ticks < MaxTicks
    /\ results # <<>>

(***************************************************************************)
(* C15: get_medication_status(patient) returns one row for each of the     *)
(* patient's entries sent today, with the entry's status, and one          *)
(* synthesized pending row (_id pending_{medication}_{slot}, no sent_time) *)
(* for each slot of an active medication of the patient that has no entry  *)
(* today, and no other row, in ascending order of the slot label; for an   *)
(* active medication with slots 08:00 and 20:00 of which 08:00 alone has   *)
(* been dispatched, once, it returns the real 08:00 row and then the       *)
(* synthesized 20:00 row.  Today is the day of the server's datetime.now().*)
(***************************************************************************)
ServerNow == NaiveLocalNow(clock, serverOffset)

SentToday(log) == DateOf(log.sent_time) = DateOf(ServerNow)

ActiveNow(med) ==
    /\ med.start_date <= ServerNow
    /\ ServerNow <= med.start_date + med.duration_days * MinutesPerDay

RowsWithId(rows, id) == {r \in 1..Len(rows) : rows[r]._id = id}

StatusRowsRight(patient) ==
    LET rows == get_medication_status(patient, Absent, ServerNow).today_logs
        real == {k \in LogIndexes :
                    /\ CaseFold(medication_logs[k].patient_name) = CaseFold(patient)
                    /\ SentToday(medication_logs[k])}
        open == {<<m, t>> \in (1..Len(medications)) \X {"08:00", "20:00"} :
                    /\ CaseFold(medications[m].patient_name) = CaseFold(patient)
                    /\ ActiveNow(medications[m])
                    /\ t \in Range(medications[m].times)
                    /\ ~\E k \in LogIndexes :
                          /\ medication_logs[k].medication_id = medications[m]._id
                          /\ medication_logs[k].scheduled_time = t
                          /\ SentToday(medication_logs[k])}
    IN  /\ Len(rows) = Cardinality(real) + Cardinality(open)
        /\ \A k \in real :
              \E r \in 1..Len(rows) :
                  /\ RowsWithId(rows, <<medication_logs[k]._id>>) = {r}
                  /\ rows[r].status = medication_logs[k].status
                  /\ rows[r].scheduled_time = medication_logs[k].scheduled_time
                  /\ rows[r].sent_time = Some(medication_logs[k].sent_time)
        /\ \A pair \in open :
              \E r \in 1..Len(rows) :
                  /\ RowsWithId(rows, <<"pending", medications[pair[1]]._id, pair[2]>>)
                        = {r}
                  /\ rows[r].status = "pending"
                  /\ rows[r].scheduled_time = pair[2]
                  /\ rows[r].sent_time = Absent
        /\ \A q, r \in 1..Len(rows) :
              q < r => MinuteOf(rows[q].scheduled_time) <= MinuteOf(rows[r].scheduled_time)

\* the medication is active, and of its slots 08:00 and 20:00 the first alone
\* has an entry today
MorningDispatched ==
    /\ Len(medications) = 1
    /\ Range(medications[1].times) = {"08:00", "20:00"}
    /\ ActiveNow(medications[1])
    /\ Len(medication_logs) = 1
    /\ medication_logs[1].scheduled_time = "08:00"
    /\ SentToday(medication_logs[1])

C15_TodayStatusRows ==
    /\ \A patient \in QueryNames : StatusRowsRight(patient)
    /\ MorningDispatched =>
          LET rows == get_medication_status("Asha", Absent, ServerNow).today_logs IN
          /\ Len(rows) = 2
          /\ rows[1]._id = <<medication_logs[1]._id>>
          /\ rows[1].status = medication_logs[1].status
          /\ rows[2]._id = <<"pending", medications[1]._id, "20:00">>
          /\ rows[2].status = "pending"

\* the example, the 08:00 entry answered and the slots stored evening first
C15_Witness ==
    /\ MorningDispatched
    /\ medications[1].times = <<"20:00", "08:00">>
    /\ medication_logs[1].status = "taken"
    /\ Len(get_medication_status("asha", Absent, ServerNow).today_logs) = 2

(***************************************************************************)
(* C16: for every log content get_medication_adherence returns as total    *)
(* the number of the patient's entries with sent_time in [now - days, now],*)
(* as taken, missed and pending the numbers of those with that status, and *)
(* as adherence_rate the hundredth of a percent nearest to                 *)
(* taken / total * 100, which is 0 when total = 0.  now is the server's    *)
(* datetime.now().                                                         *)
(***************************************************************************)
InPeriod(patient, days) ==
    {k \in LogIndexes :
        /\ CaseFold(medication_logs[k].patient_name) = CaseFold(patient)
        /\ medication_logs[k].sent_time >= ServerNow - days * MinutesPerDay
        /\ medication_logs[k].sent_time <= ServerNow}

InPeriodWith(patient, days, status) ==
    {k \in InPeriod(patient, days) : medication_logs[k].status = status}

\* 2 * |a - b| <= c
WithinHalf(a, b, c) == 2 * (a - b) <= c /\ 2 * (b - a) <= c

C16_AdherenceCounts ==
    \A patient \in QueryNames, days \in PeriodDays :
        LET r == get_medication_adherence(patient, days, Absent, ServerNow)
            total == Cardinality(InPeriod(patient, days))
            taken == Cardinality(InPeriodWith(patient, days, "taken"))
        IN  /\ r.total_reminders = total
            /\ r.taken = taken
            /\ r.missed = Cardinality(InPeriodWith(patient, days, "missed"))
            /\ r.pending = Cardinality(InPeriodWith(patient, days, "pending"))
            /\ IF total = 0
               THEN r.adherence_rate = 0
               ELSE WithinHalf(r.adherence_rate * total, taken * 10000, total)

\* two of three entries taken, answered with 66.67, and an answer for a
\* patient without entries, with rate 0
C16_Witness ==
    /\ response # Absent
    /\ Len(response) = 2
    /\ response[1].total_reminders = 3
    /\ response[1].taken = 2
    /\ response[1].adherence_rate = 6667
    /\ response[2].total_reminders = 0
    /\ response[2].adherence_rate = 0

(***************************************************************************)
(* C17: every log entry of a medication that has an owning-account id      *)
(* carries that user_id, and every Confirmation the user_id of the entry   *)
(* it resolves; a today-status or adherence query with that account filter *)
(* includes the entry.                                                     *)
(***************************************************************************)
Owner(doc) == IF "user_id" \in DOMAIN doc THEN doc.user_id ELSE Absent

C17_EntryCarriesAccount ==
    /\ \A k \in LogIndexes, m \in 1..Len(medications) :
          (/\ medications[m]._id = medication_logs[k].medication_id
           /\ Owner(medications[m]) # Absent)
          => /\ Owner(medication_logs[k]) = Owner(medications[m])
             /\ \E r \in 1..Len(AdherenceLogs(medication_logs[k].patient_name, 1,
                                               Owner(medications[m]), ServerNow)) :
                   AdherenceLogs(medication_logs[k].patient_name, 1,
                                 Owner(medications[m]), ServerNow)[r]._id
                       = <<medication_logs[k]._id>>
    /\ \A c \in 1..Len(medication_confirmations), k \in LogIndexes :
          medication_logs[k]._id = medication_confirmations[c].log_id
          => Owner(medication_confirmations[c]) = Owner(medication_logs[k])

(***************************************************************************)
(* C18: no stored medication, and so none in the cursor of a tick, has an  *)
(* empty list of times or a duration_days that is not positive.            *)
(***************************************************************************)
ValidSchedule(med) == med.times # <<>> /\ med.duration_days > 0

C18_InvalidScheduleNeverStored ==
    /\ \A r \in 1..Len(results) : ValidSchedule(results[r])
    /\ tickPc = "idle" => \A m \in 1..Len(medications) : ValidSchedule(medications[m])

(***************************************************************************)
(* C19: every webhook invocation that has returned has answered with an    *)
(* acknowledgment: the taken one for success with is_taken, the missed one *)
(* for success without, the no-recent-reminder one for no_pending and a    *)
(* contact-your-provider one for ignored and error; and the webhook        *)
(* answers with a contact-your-provider message when the await raises.     *)
(***************************************************************************)
ContactProvider == {AckGeneric, AckError}

C19_AlwaysAcknowledged ==
    /\ \A i \in Invocations :
          Returned(i) =>
             /\ inv[i].twiml # Absent
             /\ (StatusOf(i) = "success" /\ inv[i].result[1].is_taken)
                   => inv[i].twiml = Some(AckTaken)
             /\ (StatusOf(i) = "success" /\ ~inv[i].result[1].is_taken)
                   => inv[i].twiml = Some(AckMissed)
             /\ StatusOf(i) = "no_pending" => inv[i].twiml = Some(AckNoPending)
             /\ StatusOf(i) \in {"ignored", "error"}
                   => inv[i].twiml[1] \in ContactProvider
    /\ \A i \in Invocations : ~Returned(i) => inv[i].twiml = Absent
    /\ twilio_webhook(Absent) # Absent
    /\ twilio_webhook(Absent)[1] \in ContactProvider

\* an ignored text and a reply stopped by a database error have both been
\* answered
C19_Witness ==
    /\ Returned(1) /\ StatusOf(1) = "ignored" /\ inv[1].twiml = Some(AckGeneric)
    /\ Returned(2) /\ StatusOf(2) = "error" /\ inv[2].twiml = Some(AckGeneric)

(***************************************************************************)
(* C20: a pending entry stays in the log and stays pending in every step   *)
(* but the update of a reply that selected it: no tick, no passing of time *)
(* and no other reply changes it, also after the 4-hour lookback window    *)
(* has passed; and get_medication_adherence counts it as pending as long   *)
(* as it is within the period asked for.                                   *)
(***************************************************************************)
PendingCounted ==
    \A k \in LogIndexes :
        (/\ medication_logs[k].status = "pending"
         /\ medication_logs[k].sent_time >= ServerNow - MinutesPerDay
         /\ medication_logs[k].sent_time <= ServerNow)
        => LET r == get_medication_adherence(medication_logs[k].patient_name, 1,
                                             Absent, ServerNow)
           IN  /\ r.pending >= 1
               /\ \E q \in 1..Len(r.logs) :
                     /\ r.logs[q]._id = <<medication_logs[k]._id>>
                     /\ r.logs[q].status = "pending"

C20_PendingNeverExpires ==
    /\ []PendingCounted
    /\ [][\A k \in LogIndexes :
             medication_logs[k].status = "pending" =>
                /\ k \in 1..Len(medication_logs')
                /\ medication_logs'[k]._id = medication_logs[k]._id
                /\ \/ medication_logs'[k] = medication_logs[k]
                   \/ \E i \in Invocations :
                         /\ UpdateStep(i)
                         /\ inv[i].recent_log[1]._id = medication_logs[k]._id]_vars

\* an entry is pending after its lookback window has passed: a reply of its
\* number is being looked up and will not find it
C20_Witness ==
    \E k \in LogIndexes, i \in Invocations :
        /\ medication_logs[k].status = "pending"
        /\ inv[i].pc = "find"
        /\ medication_logs[k].contact_number \in CandidateSet(i)
        /\ medication_logs[k].sent_time < inv[i].current_time - LookbackMinutes
        /\ clock - medication_logs[k].sent_time > LookbackMinutes
        /\ get_medication_adherence("Asha", 1, Absent, ServerNow).pending >= 1

(***************************************************************************)
(* C21: the find_one of a recognized reply from address a finds an entry   *)
(* whenever a pending entry sent no earlier than current_time - 4 hours    *)
(* has a stored contact_number c with normalize_phone_number(c) =          *)
(* normalize_phone_number(a), whatever the form c was stored in.           *)
(***************************************************************************)
SameNumber(c, a) == normalize_phone_number(c) = normalize_phone_number(a)

C21_StoredFormTolerated ==
    [][\A i \in Invocations :
         (/\ FindStep(i)
          /\ ~RaisedIn(i)
          /\ \E k \in LogIndexes :
                /\ medication_logs[k].status = "pending"
                /\ medication_logs[k].sent_time >= inv[i].current_time - LookbackMinutes
                /\ SameNumber(medication_logs[k].contact_number, inv[i].contact_number))
         => /\ inv'[i].pc = "update"
            /\ SameNumber(inv'[i].recent_log[1].contact_number,
                          inv[i].contact_number)]_vars

(***************************************************************************)
(* C22: the normalized_contact of every invocation is a '+' followed by    *)
(* digits only, normalizing it again gives the same string, and            *)
(* normalize_phone_number("whatsapp:+1 234-567-8900") is "+12345678900".   *)
(***************************************************************************)
PlusThenDigits(s) ==
    /\ s # <<>>
    /\ s[1] = "+"
    /\ \A k \in 2..Len(s) : s[k] \in Digits

Processing(i) == inv[i].pc \in {"find", "update", "insert"}

C22_NormalizeIdempotent ==
    /\ \A i \in Invocations :
          Processing(i) =>
             /\ inv[i].normalized_contact = normalize_phone_number(inv[i].contact_number)
             /\ normalize_phone_number(inv[i].normalized_contact)
                   = inv[i].normalized_contact
             /\ PlusThenDigits(inv[i].normalized_contact)
    /\ normalize_phone_number(FormattedAddress)
          = <<"+", "1", "2", "3", "4", "5", "6", "7", "8", "9", "0", "0">>

(***************************************************************************)
(* C23: when delete_prescription(p) has returned success, no medication    *)
(* created from p is stored, a run of the tick that starts then has none   *)
(* of them in its cursor, and log entries and notifications are created    *)
(* only for the medication at the head of a run's cursor; the steps of     *)
(* delete_prescription change no log entry and no Confirmation.            *)
(***************************************************************************)
DeleteSucceeded ==
    deletion.pc = "done" /\ deletion.result[1].status_code = 200

CreatedFrom(med, prescription_id) ==
    "prescription_id" \in DOMAIN med /\ med.prescription_id = prescription_id

DeleteStep == deletion'.pc # deletion.pc \/ deletion'.calls # deletion.calls

NoMatchStep ==
    /\ deletion'.calls = deletion.calls + 1
    /\ ~\E k \in 1..Len(prescriptions) :
          MatchesPrescription(prescriptions[k], deletion'.prescription_id,
                              deletion'.user_id)

C24_NotFoundReported ==
    [][NoMatchStep =>
         /\ deletion'.pc = "done"
         /\ prescriptions' = prescriptions
         /\ medications' = medications
         /\ deletion'.result[1].detail # <<"Error deleting prescription: ">>
                                             \o DatabaseRaised
               => /\ deletion'.result[1].status_code = 404
                  /\ deletion'.result[1].detail = <<NotFoundDetail>>]_vars

(***************************************************************************)
(* C25: every notification handed to send_sms or send_whatsapp has a log   *)
(* entry for its medication, slot label and calendar day, written before   *)
(* the send; when the insert of the entry fails nothing is sent.           *)
(***************************************************************************)
EntryFor(n) ==
    {k \in LogIndexes :
        /\ medication_logs[k].medication_id = n.medication_id
        /\ medication_logs[k].scheduled_time = n.scheduled_time
        /\ EntryDay(medication_logs[k]) = DateOf(KolkataWall(n.at))}

C25_LoggedBeforeSent == \A n \in outbox : EntryFor(n) # {}

(***************************************************************************)
(* C26: for every patient, every account filter (none or a user_id) and    *)
(* every slot of a medication of the patient (and of the account) that is  *)
(* active now, the today_logs of get_medication_status have exactly one    *)
(* row for the medication and the slot: the real entry or the synthesized  *)
(* pending row.                                                            *)
(***************************************************************************)
RowsFor(rows, med, slot) ==
    {r \in 1..Len(rows) :
        rows[r].medication_id = med._id /\ rows[r].scheduled_time = slot}

C26_OneRowPerActiveSlot ==
    \A patient \in QueryNames, user_id \in UserIds :
        LET rows == get_medication_status(patient, user_id, ServerNow).today_logs IN
        \A m \in 1..Len(medications) :
            (/\ MatchesPatient(medications[m], patient)
             /\ MatchesUser(medications[m], user_id)
             /\ ActiveNow(medications[m]))
            => \A t \in Range(medications[m].times) :
                  Cardinality(RowsFor(rows, medications[m], t)) = 1

(***************************************************************************)
(* C27: get_medication_status synthesizes a pending row for a medication   *)
(* and a slot exactly when the tick's test 0 <= daysElapsed <              *)
(* duration_days holds for the medication today and the slot has no entry  *)
(* today: every synthesized row is for a pair the tick would dispatch      *)
(* today, and every such pair without an entry has a synthesized row.      *)
(***************************************************************************)
Synthesized(rows) == {r \in 1..Len(rows) : rows[r].sent_time = Absent}

\* the tick running at the slot today would dispatch med
DueToday(med) == InWindow(clock, med)

LoggedToday(med, slot) ==
    \E k \in LogIndexes :
        /\ medication_logs[k].medication_id = med._id
        /\ medication_logs[k].scheduled_time = slot
        /\ EntryDay(medication_logs[k]) = DateOf(KolkataWall(clock))

C27_ActiveTestsAgree ==
    \A patient \in QueryNames :
        LET rows == get_medication_status(patient, Absent, ServerNow).today_logs IN
        /\ \A r \in Synthesized(rows) :
              \E m \in 1..Len(medications) :
                  /\ medications[m]._id = rows[r].medication_id
                  /\ rows[r].scheduled_time \in Range(medications[m].times)
                  /\ DueToday(medications[m])
        /\ \A m \in 1..Len(medications) :
              (MatchesPatient(medications[m], patient) /\ DueToday(medications[m]))
              => \A t \in Range(medications[m].times) :
                    ~LoggedToday(medications[m], t)
                    => \E r \in Synthesized(rows) :
                          /\ rows[r].medication_id = medications[m]._id
                          /\ rows[r].scheduled_time = t

(***************************************************************************)
(* C28: in every state each log entry has response_received true exactly   *)
(* when its status is taken or missed, and response_time and               *)
(* response_message set exactly then; an entry is created with status      *)
(* pending and response_received false.                                    *)
(***************************************************************************)
ResponseFieldsAgree(log) ==
    /\ log.status \in {"pending", "taken", "missed"}
    /\ log.response_received <=> Resolved(log)
    /\ log.response_time # Absent <=> Resolved(log)
    /\ log.response_message # Absent <=> Resolved(log)

C28_ResponseFieldsFollowStatus ==
    /\ [](\A k \in LogIndexes : ResponseFieldsAgree(medication_logs[k]))
    /\ [][\A k \in 1..Len(medication_logs') :
             k > Len(medication_logs) =>
                /\ medication_logs'[k].status = "pending"
                /\ ~medication_logs'[k].response_received]_vars

\* of two entries the first has been answered and the second is open
C28_Witness ==
    /\ Len(medication_logs) = 2
    /\ medication_logs[1].status = "missed"
    /\ medication_logs[1].response_received
    /\ medication_logs[1].response_message = Some(TextNoThanks)
    /\ medication_logs[2].status = "pending"
    /\ ~medication_logs[2].response_received

(***************************************************************************)
(* C29: every Confirmation agrees with the log entry its log_id names:     *)
(* is_taken is true exactly when the entry is taken and false exactly when *)
(* it is missed, and medication_id, scheduled_time and response_message    *)
(* are those of the entry.                                                 *)
(***************************************************************************)
AgreesWithEntry(confirmation, log) ==
    /\ confirmation.is_taken <=> log.status = "taken"
    /\ ~confirmation.is_taken <=> log.status = "missed"
    /\ confirmation.medication_id = log.medication_id
    /\ confirmation.scheduled_time = log.scheduled_time
    /\ Some(confirmation.response_message) = log.response_message

C29_ConfirmationAgreesWithEntry ==
    \A c \in 1..Len(medication_confirmations), k \in LogIndexes :
        medication_confirmations[c].log_id = medication_logs[k]._id
        => AgreesWithEntry(medication_confirmations[c], medication_logs[k])

(***************************************************************************)
(* C30: a step of an invocation of process_medication_response changes no  *)
(* medication, changes no log entry but (in its update) the selected one,  *)
(* and removes or changes no Confirmation; an invocation appends one       *)
(* Confirmation when it returns success and none otherwise, and the steps  *)
(* that end in ignored or no_pending change no collection.  A step of the  *)
(* tick appends at most one log entry and changes or removes no existing   *)
(* log entry, no Confirmation and no medication.                           *)
(***************************************************************************)
IsPrefix(s, t) == Len(s) <= Len(t) /\ SubSeq(t, 1, Len(s)) = s

ReplyStep(i) == inv'[i] # inv[i]

TickStep ==
    <<ticks, tickPc, tickNow, results, log_id, outbox>>'
        # <<ticks, tickPc, tickNow, results, log_id, outbox>>

EndsWithout(i) ==
    /\ inv'[i].pc = "done"
    /\ inv'[i].result[1].status \in {"ignored", "no_pending"}

C30_FrameEffects ==
    /\ [](Len(medication_confirmations) = Cardinality(Succeeded))
    /\ [][/\ \A i \in Invocations :
               ReplyStep(i) =>
                  /\ medications' = medications
                  /\ IsPrefix(medication_confirmations, medication_confirmations')
                  /\ Len(medication_confirmations') <= Len(medication_confirmations) + 1
                  /\ Len(medication_logs') = Len(medication_logs)
                  /\ \A k \in LogIndexes :
                        medication_logs'[k] # medication_logs[k]
                        => /\ inv[i].pc = "update"
                           /\ medication_logs[k]._id = inv[i].recent_log[1]._id
                  /\ (inv[i].pc \in {"idle", "find"} \/ EndsWithout(i)) =>
                        /\ medication_logs' = medication_logs
                        /\ medication_confirmations' = medication_confirmations
          /\ TickStep =>
               /\ medications' = medications
               /\ medication_confirmations' = medication_confirmations
               /\ IsPrefix(medication_logs, medication_logs')
               /\ Len(medication_logs') <= Len(medication_logs) + 1]_vars

\* one reply has resolved one of two entries and added its Confirmation, a
\* second was ignored, and a later run of the tick has added the other entry
C30_Witness ==
    /\ Returned(1) /\ StatusOf(1) = "success"
    /\ Returned(2) /\ StatusOf(2) = "ignored"
    /\ Len(medication_confirmations) = 1
    /\ Len(medication_logs) = 2
    /\ Resolved(medication_logs[1])
    /\ medication_logs[2].status = "pending"
    /\ Len(medications) = 1
    /\ tickPc = "idle"

=============================================================================
